---- MODULE Spec2Model ----
(***************************************************************************)
(* A model of the cache / synchronization engine of GameLibTools:          *)
(*   gamelibtools/datatable.py  DataTable (rows, index, watermark, file)   *)
(*   gamelibtools/dataset.py    DataSet (sync, chunked import, references) *)
(*                                                                         *)
(* Positions are 0-based as in the Python lists: index[id] = p means the   *)
(* row is data[p + 1] of the TLA+ sequence.                                *)
(***************************************************************************)
EXTENDS Integers, Sequences, FiniteSets, TLC

VARIABLES
    dt,         \* the DataTable: [data, index, lastupdate, issaved,
                \*                 syncable, sortcol, schema]
    remote,     \* the remote table: id -> timestamp of its row, 0 when it has no row
    run,        \* the call of DataSet in progress: its position and its locals
    disk,       \* the files: the table file and the checkpoint files of the table
    hist        \* history of the calls made (ghost, read by the properties only)

vars == <<dt, remote, run, disk, hist>>

----------------------------------------------------------------------------
(* Bounds of the model *)

MaxId == 2          \* row ids are 1..MaxId
MaxTs == 2          \* timestamps are 1..MaxTs
MaxRows == 3        \* len(data) is capped (the broken index lets it grow without bound)
MaxRemote == 3      \* the remote table holds ids 1..MaxRemote
MaxKills == 2       \* the process is killed (and restarted) at most MaxKills times
MaxResolves == 2    \* at most MaxResolves ids are resolved by resolve_ref calls
RecursionLimit == 3 \* nested resolutions the interpreter allows before RecursionError
MaxTouches == 1     \* the remote source changes at most MaxTouches times during an import
MaxClock == 8       \* the clock readings of the rate limiter are 1..MaxClock
MaxFileRows == 2    \* a table is saved while it holds at most MaxFileRows rows
MaxOps == 3         \* rows are added to or removed from the tables of a dataset at most MaxOps times

\* "limit 500" of every page request, scaled down.
PageLimit == 2

\* DataSet.bigtablesize (100000) and DataSet.chunksize (50000), scaled down:
\* a chunk is a whole number of pages, a big table at least two chunks.
bigtablesize == 4
chunksize == 2

\* IgdbClient.reqlimitms (250 ms) in ticks of the model's clock.
reqlimitms == 3

----------------------------------------------------------------------------
(* Values *)

\* Python's None as a field value.
None == -1

\* self.lastupdate after remove_row assigned it max(self.data, key=...): a row
\* (a dict), no longer an integer.
RowObject == -2

Ids == 1..MaxId
Stamps == 1..MaxTs

\* A row is a dict: a function from column names to values.  The timestamp
\* column (self.tscol) is "ts"; the values of a row's other columns are
\* those the remote source held for that id at that timestamp.
Row(i, t) == [id |-> i, ts |-> t]
RowNoTs(i) == [id |-> i]
RowNoId(t) == [ts |-> t]

RowsWithId == {Row(i, t) : i \in Ids, t \in Stamps} \cup {RowNoTs(i) : i \in Ids}
InputRows == RowsWithId \cup {RowNoId(t) : t \in Stamps}

HasKey(row, k) == k \in DOMAIN row

\* The empty dict.
EmptyIndex == [i \in {} |-> 0]

----------------------------------------------------------------------------
(* DataTable *)

\* DataTable.__init__ ; syncable is set by DataSet._init right after.
NewTable(cansync, srtc, cols) ==
    [data |-> <<>>, index |-> EmptyIndex, lastupdate |-> 0,
     issaved |-> FALSE, syncable |-> cansync, sortcol |-> srtc, schema |-> cols]

in_index(t, rid) == rid \in DOMAIN t.index /\ t.index[rid] < Len(t.data)

count(t) == Len(t.data)

\* dict assignment self.index[k] = p
IndexPut(idx, k, p) == [i \in DOMAIN idx \cup {k} |-> IF i = k THEN p ELSE idx[i]]

\* dict.pop(k)
IndexPop(idx, k) == [i \in DOMAIN idx \ {k} |-> idx[i]]

\* list.pop(p), p 0-based
ListPop(s, p) == [j \in 1..(Len(s) - 1) |-> IF j <= p THEN s[j] ELSE s[j + 1]]

\* The comparison vrow[self.tscol] > self.lastupdate raises TypeError when
\* lastupdate holds a row or the row's timestamp is None.
add_row_raises(t, vrow) ==
    /\ HasKey(vrow, "id")
    /\ t.syncable /\ HasKey(vrow, "ts")
    /\ (t.lastupdate = RowObject \/ vrow.ts = None)

\* add_row with the watermark assigned from every row, not only a newer one.
add_row_nomax(t, vrow) ==
    IF ~HasKey(vrow, "id") THEN t
    ELSE LET hit == in_index(t, vrow.id)
             d1 == IF hit THEN [t.data EXCEPT ![t.index[vrow.id] + 1] = vrow]
                          ELSE Append(t.data, vrow)
             i1 == IF hit THEN t.index ELSE IndexPut(t.index, vrow.id, Len(d1) - 1)
         IN  [t EXCEPT !.data = d1, !.index = i1,
                       !.lastupdate = IF t.syncable /\ HasKey(vrow, "ts")
                                      THEN vrow.ts ELSE @,
                       !.issaved = FALSE]

\* MUTANT: the id test comes after the watermark and the dirty flag.
add_row_lateidtest(t, vrow) ==
    IF ~HasKey(vrow, "id")
    THEN [t EXCEPT !.lastupdate = IF t.syncable /\ HasKey(vrow, "ts") /\ t.lastupdate # RowObject
                                     /\ vrow.ts > t.lastupdate
                                  THEN vrow.ts ELSE @,
                   !.issaved = FALSE]
    ELSE LET hit == in_index(t, vrow.id)
             d1 == IF hit THEN [t.data EXCEPT ![t.index[vrow.id] + 1] = vrow]
                          ELSE Append(t.data, vrow)
             i1 == IF hit THEN t.index ELSE IndexPut(t.index, vrow.id, Len(d1) - 1)
         IN  [t EXCEPT !.data = d1, !.index = i1,
                       !.lastupdate = IF t.syncable /\ HasKey(vrow, "ts") /\ t.lastupdate # RowObject
                                         /\ vrow.ts > t.lastupdate
                                      THEN vrow.ts ELSE @,
                       !.issaved = FALSE]

add_row(t, vrow) ==
    IF ~HasKey(vrow, "id") THEN t
    ELSE LET hit == in_index(t, vrow.id)
             d1 == IF hit THEN [t.data EXCEPT ![t.index[vrow.id] + 1] = vrow]
                          ELSE Append(t.data, vrow)
             i1 == IF hit THEN t.index ELSE IndexPut(t.index, vrow.id, Len(d1) - 1)
         IN  IF add_row_raises(t, vrow)
             THEN [t EXCEPT !.data = d1, !.index = i1]
             ELSE [t EXCEPT !.data = d1, !.index = i1,
                            !.lastupdate = IF t.syncable /\ HasKey(vrow, "ts")
                                              /\ vrow.ts > t.lastupdate
                                           THEN vrow.ts ELSE @,
                            !.issaved = FALSE]

\* remove_row: whether the row popped held the watermark.
remove_hit(t, row) ==
    /\ t.syncable /\ HasKey(row, "ts")
    /\ t.lastupdate # RowObject /\ row.ts = t.lastupdate

\* max(self.data, key=lambda obj: obj[self.tscol]) raises ValueError on an
\* empty list and KeyError when a row has no timestamp.
remove_row_raises(t, rid) ==
    /\ in_index(t, rid)
    /\ LET p == t.index[rid]
           d1 == ListPop(t.data, p)
       IN  /\ remove_hit(t, t.data[p + 1])
           /\ \/ d1 = <<>>
              \/ \E j \in 1..Len(d1) : ~HasKey(d1[j], "ts")

\* MUTANT: a remove that misses the index still marks the table dirty.
remove_row_dirtymiss(t, rid) ==
    IF ~in_index(t, rid) THEN [t EXCEPT !.issaved = FALSE]
    ELSE LET p == t.index[rid]
             d1 == ListPop(t.data, p)
             i1 == IndexPop(t.index, rid)
         IN  [t EXCEPT !.data = d1, !.index = i1, !.issaved = FALSE]

remove_row(t, rid) ==
    IF ~in_index(t, rid) THEN t
    ELSE LET p == t.index[rid]
             row == t.data[p + 1]
             d1 == ListPop(t.data, p)
             i1 == IndexPop(t.index, rid)
         IN  IF remove_row_raises(t, rid)
             THEN [t EXCEPT !.data = d1, !.index = i1]
             ELSE [t EXCEPT !.data = d1, !.index = i1,
                            !.lastupdate = IF remove_hit(t, row) THEN RowObject ELSE @,
                            !.issaved = FALSE]

\* _list_fields: the row as the file holds it, one field per schema column,
\* None where the row has no value.
list_fields(t, row) ==
    [c \in t.schema |-> IF HasKey(row, c) /\ row[c] # None THEN row[c] ELSE None]

\* _parse_fields: the row read back, every schema column a key.
parse_fields(t, frow) == [c \in t.schema |-> frow[c]]

\* save: the rows written to the file.
save_rows(t) == [p \in 1..Len(t.data) |-> list_fields(t, t.data[p])]

\* save: the table afterwards.
save(t) == [t EXCEPT !.issaved = TRUE]

\* load: "for row in reader: self.add_row(self._parse_fields(row))", ended by
\* the first row that raises.
RECURSIVE load_rows(_, _, _)
load_rows(t, rows, k) ==
    IF k > Len(rows) THEN t
    ELSE IF add_row_raises(t, parse_fields(t, rows[k]))
         THEN add_row(t, parse_fields(t, rows[k]))
         ELSE load_rows(add_row(t, parse_fields(t, rows[k])), rows, k + 1)

\* load: watermark and index are reset, the rows in memory are kept.
load(t, rows) ==
    [load_rows([t EXCEPT !.lastupdate = 0, !.index = EmptyIndex], rows, 1)
        EXCEPT !.issaved = TRUE]

----------------------------------------------------------------------------
(* Specification Spec: one DataTable and its callers' add_row / remove_row *)

NoHist == [onlyadds |-> TRUE, maxts |-> 0]

Idle == [pc |-> "idle"]

\* No table file, no checkpoint file.
NoFiles == [hasfile |-> FALSE, rows |-> <<>>, tmp |-> {}]

Init ==
    /\ \E s \in BOOLEAN : dt = NewTable(s, "id", {"id", "ts"})
    /\ remote = <<>>
    /\ run = Idle
    /\ disk = NoFiles
    /\ hist = NoHist

AddRow ==
    \E vrow \in InputRows :
        /\ Len(dt.data) < MaxRows
        /\ dt' = add_row(dt, vrow)
        /\ hist' = [hist EXCEPT
                      !.maxts = IF HasKey(vrow, "id") /\ HasKey(vrow, "ts") /\ vrow.ts > @
                                THEN vrow.ts ELSE @]
        /\ UNCHANGED <<remote, run, disk>>

RemoveRow ==
    \E rid \in Ids :
        /\ dt' = remove_row(dt, rid)
        /\ hist' = [hist EXCEPT !.onlyadds = FALSE]
        /\ UNCHANGED <<remote, run, disk>>

Next == AddRow \/ RemoveRow

Spec == Init /\ [][Next]_vars

----------------------------------------------------------------------------
(* Properties of the table *)

\* The positions of the rows carrying id i.
RowsOf(t, i) == {p \in 1..Len(t.data) : t.data[p].id = i}

\* max(row[tscol]) over the rows that have the column, 0 if none.
SetMax(S) == IF S = {} THEN 0 ELSE CHOOSE m \in S : \A x \in S : x <= m
MaxStamp(data) == SetMax({data[p].ts : p \in {q \in 1..Len(data) : HasKey(data[q], "ts")}})

\* C1: after any sequence of add_row and remove_row, index[r.id] is the
\* position of r for every row r, every indexed id points at a row carrying
\* that id, and no two rows share an id.
C1_IndexConsistent ==
    /\ \A p \in 1..Len(dt.data) :
          /\ dt.data[p].id \in DOMAIN dt.index
          /\ dt.index[dt.data[p].id] = p - 1
    /\ \A i \in DOMAIN dt.index :
          /\ dt.index[i] < Len(dt.data)
          /\ dt.data[dt.index[i] + 1].id = i
    /\ \A i \in Ids : Cardinality(RowsOf(dt, i)) <= 1

\* C2: from any state of the table, two upserts with the same id leave one
\* row for that id, holding the second upsert's values at the position the
\* first upsert gave it, one index entry for it, and at most one row more.
C2_UpsertTwice ==
    \A r1, r2 \in RowsWithId :
        r1.id = r2.id =>
            LET t1 == add_row(dt, r1)
                t2 == add_row(t1, r2)
            IN  /\ Cardinality(RowsOf(t2, r1.id)) = 1
                /\ r1.id \in DOMAIN t2.index
                /\ t2.index[r1.id] = t1.index[r1.id]
                /\ t2.data[t2.index[r1.id] + 1] = r2
                /\ Len(t2.data) <= Len(dt.data) + 1

\* C3 as stated: after upserts only, the watermark of a syncable table is the
\* maximum timestamp over the rows now in the table (0 if there is none).
C3_WatermarkIsMaxOfRows ==
    (dt.syncable /\ hist.onlyadds) => dt.lastupdate = MaxStamp(dt.data)

\* C3 amended: after upserts only, the watermark of a syncable table is the
\* largest timestamp of all rows upserted so far (0 if none had one); it is
\* never below the maximum over the rows now in the table.
C3_WatermarkIsRunningMax ==
    (dt.syncable /\ hist.onlyadds) =>
        /\ dt.lastupdate = hist.maxts
        /\ dt.lastupdate >= MaxStamp(dt.data)

\* An overwrite has lowered the timestamp of the row that set the watermark.
C3_Witness ==
    /\ dt.syncable /\ hist.onlyadds
    /\ dt.data # <<>>
    /\ dt.lastupdate > MaxStamp(dt.data)
    /\ MaxStamp(dt.data) > 0

----------------------------------------------------------------------------
(* The remote source: count and req of the client, answered from `remote` *)

RIds == 1..MaxRemote

RemoteRows(rem) == {Row(i, rem[i]) : i \in {j \in RIds : rem[j] > 0}}

\* A "where" clause: tscol > tsgt, id > idgt and, when tsle > 0, tscol <= tsle.
Where(tsgt, idgt, tsle) == [tsgt |-> tsgt, idgt |-> idgt, tsle |-> tsle]
NoWhere == Where(-1, 0, 0)

Matches(r, q) ==
    /\ r.ts > q.tsgt
    /\ r.id > q.idgt
    /\ (q.tsle > 0 => r.ts <= q.tsle)

\* "sort <col> asc": rows with equal keys come in id order.
Before(a, b, col) == a[col] < b[col] \/ (a[col] = b[col] /\ a.id < b.id)

RECURSIVE SortRows(_, _)
SortRows(S, col) ==
    IF S = {} THEN <<>>
    ELSE LET m == CHOOSE r \in S : \A o \in S \ {r} : Before(r, o, col)
         IN  <<m>> \o SortRows(S \ {m}, col)

api_count(rem, q) == Cardinality({r \in RemoteRows(rem) : Matches(r, q)})

\* req(..., "fields ...; offset {offset}; limit 500; sort {col} asc; {q};")
api_req(rem, q, offset, col) ==
    LET all == SortRows({r \in RemoteRows(rem) : Matches(r, q)}, col)
    IN  SubSeq(all, offset + 1, IF offset + PageLimit < Len(all)
                                THEN offset + PageLimit ELSE Len(all))

----------------------------------------------------------------------------
(* DataSet.sync_table *)

\* get_full_schema(): the schema and, for a syncable table, the timestamp
\* column when the schema does not list it.
get_full_schema(t) == t.schema \cup (IF t.syncable THEN {"ts"} ELSE {})

\* _proc_row(srcrow, None, schema, tkey) for columns without type or reference:
\* the columns of the schema that the source row has, copied.
proc_row(srcrow, schema) == [k \in DOMAIN srcrow \cap schema |-> srcrow[k]]

\* A table as an earlier import or sync left it: the rows `prev` upserted in
\* id order.  After a load from a file whose columns do not include the
\* timestamp column (hasts = FALSE) the rows carry no timestamp.
RECURSIVE Upserted(_, _, _, _)
Upserted(t, prev, hasts, i) ==
    IF i > MaxRemote THEN t
    ELSE Upserted(IF prev[i] > 0
                  THEN add_row(t, IF hasts THEN Row(i, prev[i]) ELSE RowNoTs(i))
                  ELSE t,
                  prev, hasts, i + 1)

\* Each local row is the remote row or an older version of it, or a row the
\* remote source has deleted since.
Snapshots ==
    {pr \in [RIds -> 0..MaxTs] \X [RIds -> 0..MaxTs] :
        \A i \in RIds : pr[1][i] <= pr[2][i] \/ pr[2][i] = 0}

NoSyncHist == [dt0 |-> NewTable(TRUE, "id", {"id"}), wm0 |-> 0, orig |-> 0, applied |-> <<>>]

\* The watermark is the running maximum of what was upserted (C3): w is at
\* least the maximum over the rows.
SyncInit ==
    \E pr \in Snapshots, srtc \in {"id", "ts"}, hasts \in BOOLEAN, w \in 0..MaxTs :
        LET t0 == NewTable(TRUE, srtc, IF hasts THEN {"id", "ts"} ELSE {"id"})
        IN  /\ remote = pr[2]
            /\ w >= Upserted(t0, pr[1], hasts, 1).lastupdate
            /\ dt = [Upserted(t0, pr[1], hasts, 1) EXCEPT !.issaved = TRUE, !.lastupdate = w]
        /\ run = Idle
        /\ disk = NoFiles
        /\ hist = NoSyncHist

\* MUTANT: the where clause leaves the watermark out.
sync_query_nowm(t) == NoWhere

\* The where clause with >= in place of >.
sync_query_ge(t) == Where(t.lastupdate - 1, 0, 0)

\* The where clause of sync_table: f"where {dt.tscol} > {dt.lastupdate}".
sync_query(t) == Where(t.lastupdate, 0, 0)

\* sync_table up to the loop of _fetch_table: the count request, the early
\* return, and the where clause, built once from the watermark of this moment.
SyncStart ==
    /\ run.pc \in {"idle", "done", "interrupted"}
    /\ LET q == sync_query(dt)
           total == api_count(remote, q)
       IN  run' = IF total = 0 THEN [pc |-> "done"]
                  ELSE [pc |-> "loop", total |-> total, count |-> 0, q |-> q]
    /\ hist' = [dt0 |-> dt, wm0 |-> dt.lastupdate, applied |-> <<>>,
                orig |-> IF run.pc = "interrupted" THEN hist.orig ELSE dt.lastupdate]
    /\ UNCHANGED <<dt, remote, disk>>

\* Every page requested at offset 0.
fetch_offset_zero(r) == 0

\* The offset of the next page request of _fetch_table.
fetch_offset(r) == r.count

\* _fetch_table: the loop test and one page request.
SyncFetch ==
    /\ run.pc = "loop"
    /\ run' = IF run.count < run.total
              THEN [run EXCEPT !.pc = "page"]
                   @@ [resp |-> api_req(remote, run.q, fetch_offset(run), dt.sortcol),
                       k |-> 1]
              ELSE [pc |-> "done"]
    /\ UNCHANGED <<dt, remote, disk, hist>>

\* _fetch_table: one turn of "for x in resp: fproc(x)", fproc being
\* dt.add_row(_proc_row(x, None, lschema, tablekey)); after the last turn,
\* count += len(resp).
SyncApply ==
    /\ run.pc = "page"
    /\ IF run.k > Len(run.resp)
       THEN /\ run' = [pc |-> "loop", total |-> run.total,
                       count |-> run.count + Len(run.resp), q |-> run.q]
            /\ UNCHANGED <<dt, hist>>
       ELSE /\ dt' = add_row(dt, proc_row(run.resp[run.k], get_full_schema(dt)))
            /\ run' = [run EXCEPT !.k = @ + 1]
            /\ hist' = [hist EXCEPT
                          !.applied = Append(@, proc_row(run.resp[run.k], get_full_schema(dt)))]
    /\ UNCHANGED <<remote, disk>>

\* sync_table ends by an exception (the transport fails, the user interrupts)
\* and the caller keeps the DataSet; it may call sync_table again.
SyncInterrupt ==
    /\ run.pc \in {"loop", "page"}
    /\ run' = [pc |-> "interrupted"]
    /\ UNCHANGED <<dt, remote, disk, hist>>

SyncNext == SyncStart \/ SyncFetch \/ SyncApply \/ SyncInterrupt

SpecSync == SyncInit /\ [][SyncNext]_vars


----------------------------------------------------------------------------
(* Properties of sync_table *)

\* The remote rows newer than watermark w.
Delta(w) == {r \in RemoteRows(remote) : r.ts > w}

IdsOf(S) == {r.id : r \in S}

\* Row r is in table t, indexed, with these values.
Holds(t, r) == in_index(t, r.id) /\ t.data[t.index[r.id] + 1] = r

\* C4: a call of sync_table upserts only rows of the delta (the remote rows
\* with timestamp > the watermark at its start), none twice, and when it
\* returns it has upserted every one of them: K upserts for a delta of K rows.
C4_SyncAppliesDelta ==
    LET ap == hist.applied
    IN  /\ \A k \in 1..Len(ap) : ap[k] \in Delta(hist.wm0)
        /\ \A j, k \in 1..Len(ap) : ap[j] = ap[k] => j = k
        /\ run.pc = "done" =>
              /\ {ap[k] : k \in 1..Len(ap)} = Delta(hist.wm0)
              /\ Len(ap) = Cardinality(Delta(hist.wm0))

\* A sync that took more than one page has returned.
C4_Witness ==
    /\ run.pc = "done"
    /\ Len(hist.applied) > PageLimit

\* C5: when a call of sync_table with a non-empty delta returns, the watermark
\* is the maximum timestamp of the delta, every delta row is in the table with
\* its remote values, and every row whose id is not in the delta has kept its
\* values and its position; the table grew by the new ids only.
C5_SyncFrame ==
    (run.pc = "done" /\ Delta(hist.wm0) # {}) =>
        LET delta == Delta(hist.wm0)
            t0 == hist.dt0
        IN  /\ dt.lastupdate = SetMax({r.ts : r \in delta})
            /\ \A r \in delta : Holds(dt, r)
            /\ \A p \in 1..Len(t0.data) :
                  t0.data[p].id \notin IdsOf(delta) =>
                      /\ Len(dt.data) >= p
                      /\ dt.data[p] = t0.data[p]
                      /\ dt.index[t0.data[p].id] = p - 1
            /\ Len(dt.data) = Len(t0.data)
                  + Cardinality(IdsOf(delta) \ {t0.data[p].id : p \in 1..Len(t0.data)})

\* A sync returned that both overwrote a row and appended one, next to a row
\* outside the delta.
C5_Witness ==
    /\ run.pc = "done"
    /\ \E r \in Delta(hist.wm0) : in_index(hist.dt0, r.id)
    /\ \E r \in Delta(hist.wm0) : ~in_index(hist.dt0, r.id)
    /\ \E p \in 1..Len(hist.dt0.data) : hist.dt0.data[p].id \notin IdsOf(Delta(hist.wm0))

\* C10: when sync_table returns, also after it was interrupted and called
\* again, every remote row newer than the watermark the first call started
\* from is in the table with its remote values.
C10_ResumedSyncComplete ==
    run.pc = "done" => \A r \in Delta(hist.orig) : Holds(dt, r)

\* C28: a call of sync_table made when the remote source has no row with a
\* timestamp above the table's watermark returns from the count request: it
\* makes no page request and upserts nothing, and the rows, the index, the
\* watermark and the saved mark of the table are what they were.
C28_ZeroCountNoEffect ==
    [][(run.pc \in {"idle", "done", "interrupted"} /\ Delta(dt.lastupdate) = {})
          => (run'.pc = "done" /\ hist'.applied = <<>> /\ dt' = dt)]_vars

\* Such a call has returned on a saved table that holds rows, the remote
\* source holding rows as well.
C28_Witness ==
    /\ run.pc = "done"
    /\ hist.applied = <<>>
    /\ Delta(hist.wm0) = {}
    /\ RemoteRows(remote) # {}
    /\ dt = hist.dt0
    /\ dt.issaved
    /\ Len(dt.data) > 0


----------------------------------------------------------------------------
(* DataSet.load_table and DataSet.import_table, with the process killed and *)
(* started again.  import_table passes a path to DataTable.save and         *)
(* DataTable.load (dt.save(newfile), dt.load(tmpfile)): they are modelled   *)
(* as save and load above, on the checkpoint file instead of the table file *)

ImportIds == 1..(MaxRemote + 2)

ImportRows(rem) == {Row(i, rem[i]) : i \in {j \in ImportIds : rem[j] > 0}}

\* The requests of import_table, answered from the remote table.
imp_count(rem, q) == Cardinality({r \in ImportRows(rem) : Matches(r, q)})

imp_req(rem, q, offset, col) ==
    LET all == SortRows({r \in ImportRows(rem) : Matches(r, q)}, col)
    IN  SubSeq(all, offset + 1, IF offset + PageLimit < Len(all)
                                THEN offset + PageLimit ELSE Len(all))

\* maxval(backend, tscol): the largest timestamp, 0 for none.
api_maxval(rem) == SetMax({r.ts : r \in ImportRows(rem)})

\* dt.save(newfile): a checkpoint file is written (one of the same name is
\* replaced).
write_tmp(d, name, rows) ==
    [d EXCEPT !.tmp = {f \in @ : f.name # name} \cup {[name |-> name, rows |-> rows]}]

\* "if len(tmpfile) > 0: os.remove(tmpfile)": tmpfile is {} for '' and {name}
\* otherwise.  os.remove raises FileNotFoundError for a file that is not there.
remove_raises(d, tmpfile) == \E n \in tmpfile : \A f \in d.tmp : f.name # n

remove_tmp(d, tmpfile) == [d EXCEPT !.tmp = {f \in @ : f.name \notin tmpfile}]

\* MUTANT: the file name does not carry the horizon.
tmp_name_nohorizon(maxid, table_ts) == [maxid |-> maxid, ts |-> 0]

\* f"_{maxid}_{table_ts}.tmp"
tmp_name(maxid, table_ts) == [maxid |-> maxid, ts |-> table_ts]

\* "for x in resp": the rows of a page upserted in turn.
RECURSIVE add_rows(_, _, _)
add_rows(t, resp, k) ==
    IF k > Len(resp) THEN t
    ELSE add_rows(add_row(t, proc_row(resp[k], get_full_schema(t))), resp, k + 1)

\* "if x['id'] > maxid: maxid = x['id']" over a page.
page_maxid(maxid, resp) == SetMax({maxid} \cup {resp[k].id : k \in 1..Len(resp)})

\* MUTANT: a checkpoint is due for every table.
checkpoint_due_always(r, cnt) == cnt > 0 /\ cnt % chunksize = 0

\* The checkpoint test of the streaming loop.
checkpoint_due(r, cnt) == r.store_chunks /\ cnt > 0 /\ cnt % chunksize = 0

\* MUTANT: the resumed import filters by id only.
resume_query_noslice(maxid, table_ts) == Where(-1, maxid, 0)

\* The where clause of a resumed import.
resume_query(maxid, table_ts) == Where(-1, maxid, IF table_ts > 0 THEN table_ts ELSE 0)

Returned(chunks) == [pc |-> "done", store_chunks |-> chunks, saved |-> FALSE]

\* The locals of import_table when the streaming loop starts.
Streaming(chunks, q, maxid, table_ts, tmpfile, remaining) ==
    [pc |-> "loop", store_chunks |-> chunks, q |-> q, maxid |-> maxid,
     table_ts |-> table_ts, tmpfile |-> tmpfile, remaining |-> remaining, count |-> 0]

\* The ids of the rows of a table.
RowIds(t) == {t.data[p].id : p \in 1..Len(t.data)}

\* The rows a start of the process resumes from: those of the checkpoint file
\* when exactly one is found, none otherwise.
ResumeIds(d) ==
    IF Cardinality(d.tmp) = 1
    THEN LET f == CHOOSE x \in d.tmp : TRUE IN {f.rows[p].id : p \in 1..Len(f.rows)}
    ELSE {}

\* held: the ids of the rows a chunked import had processed when it was killed.
\* ckpts: the checkpoint transitions (new file written, previous one removed)
\* of the running process.  after: for a first run killed in the loop right
\* after a checkpoint transition, the number of that transition; else 0.
NoImportHist ==
    [kills |-> 0, resumed |-> FALSE, inloop |-> TRUE, held |-> {}, ckpts |-> 0, after |-> 0]

ImportInit ==
    \E rem \in [ImportIds -> 0..MaxTs], srtc \in {"id", "ts"}, hasts \in BOOLEAN :
        /\ remote = rem
        /\ dt = NewTable(TRUE, srtc, IF hasts THEN {"id", "ts"} ELSE {"id"})
        /\ run = [pc |-> "boot"]
        /\ disk = NoFiles
        /\ hist = NoImportHist

\* load_table: the table file exists and is loaded.
LoadFile ==
    /\ run.pc = "boot"
    /\ disk.hasfile
    /\ dt' = load(dt, disk.rows)
    /\ run' = [pc |-> "loaded"]
    /\ hist' = [hist EXCEPT !.held = {}]
    /\ UNCHANGED <<remote, disk>>

\* load_table without a table file: import_table up to the streaming loop
\* (the counts, the checkpoint discovery, the snapshot horizon).
ImportStart ==
    /\ run.pc = "boot"
    /\ ~disk.hasfile
    /\ LET total == imp_count(remote, NoWhere)
           chunks == total >= bigtablesize
           found == chunks /\ Cardinality(disk.tmp) = 1
           f == CHOOSE x \in disk.tmp : TRUE
           table_ts == IF found THEN f.name.ts ELSE api_maxval(remote)
           q == IF found THEN resume_query(f.name.maxid, table_ts)
                ELSE Where(-1, 0, table_ts)
           remaining == imp_count(remote, q)
       IN  /\ dt' = IF total # 0 /\ found THEN load(dt, f.rows) ELSE dt
           /\ run' = IF total = 0 THEN Returned(FALSE)
                     ELSE IF (~found /\ table_ts = 0) \/ remaining = 0 THEN Returned(chunks)
                     ELSE Streaming(chunks, q, IF found THEN f.name.maxid ELSE 0, table_ts,
                                    IF found THEN {f.name} ELSE {}, remaining)
           /\ hist' = [hist EXCEPT !.resumed = @ \/ (total # 0 /\ found), !.held = {}]
    /\ UNCHANGED <<remote, disk>>

\* One turn of the streaming loop: the page request, the upserts, the count
\* and, when a checkpoint is due, dt.save(newfile).
ImportPage ==
    /\ run.pc = "loop"
    /\ IF run.count >= run.remaining
       THEN /\ run' = [run EXCEPT !.pc = "finish"]
            /\ UNCHANGED <<dt, disk, hist>>
       ELSE LET resp == imp_req(remote, run.q, run.count, dt.sortcol)
                t1 == add_rows(dt, resp, 1)
                maxid == page_maxid(run.maxid, resp)
                cnt == run.count + Len(resp)
            IN  IF checkpoint_due(run, cnt)
                THEN /\ disk' = write_tmp(disk, tmp_name(maxid, run.table_ts), save_rows(t1))
                     /\ dt' = save(t1)
                     /\ run' = [run EXCEPT !.pc = "rotate", !.maxid = maxid, !.count = cnt]
                                  @@ [newfile |-> tmp_name(maxid, run.table_ts),
                                      last |-> Len(resp)]
                     /\ UNCHANGED hist
                ELSE /\ dt' = t1
                     /\ run' = [run EXCEPT !.pc = IF Len(resp) = 0 THEN "finish" ELSE "loop",
                                           !.maxid = maxid, !.count = cnt]
                     /\ UNCHANGED <<disk, hist>>
    /\ UNCHANGED remote

\* The rest of a checkpoint: the previous checkpoint file is removed
\* (FileNotFoundError if it is not there), then the loop goes on.
ImportRotate ==
    /\ run.pc = "rotate"
    /\ IF remove_raises(disk, run.tmpfile)
       THEN /\ run' = [pc |-> "failed"]
            /\ UNCHANGED <<disk, hist>>
       ELSE /\ disk' = remove_tmp(disk, run.tmpfile)
            /\ run' = [Streaming(run.store_chunks, run.q, run.maxid, run.table_ts,
                                 {run.newfile}, run.remaining)
                          EXCEPT !.pc = IF run.last = 0 THEN "finish" ELSE "loop",
                                 !.count = run.count]
            /\ hist' = [hist EXCEPT !.ckpts = @ + 1]
    /\ UNCHANGED <<dt, remote>>

\* After the loop: _resolve_autorefs (the schema has no self reference) and
\* dt.save().
ImportSave ==
    /\ run.pc = "finish"
    /\ disk' = [disk EXCEPT !.hasfile = TRUE, !.rows = save_rows(dt)]
    /\ dt' = save(dt)
    /\ run' = [run EXCEPT !.pc = "cleanup"]
    /\ UNCHANGED <<remote, hist>>

\* "if len(tmpfile) > 0: os.remove(tmpfile)" and the return.
ImportCleanup ==
    /\ run.pc = "cleanup"
    /\ IF remove_raises(disk, run.tmpfile)
       THEN /\ run' = [pc |-> "failed"]
            /\ UNCHANGED disk
       ELSE /\ disk' = remove_tmp(disk, run.tmpfile)
            /\ run' = [pc |-> "done", store_chunks |-> run.store_chunks, saved |-> TRUE]
    /\ UNCHANGED <<dt, remote, hist>>

\* The process is killed, or has ended, and is started again: DataSet._init
\* builds the table anew; the files stay.
Kill ==
    /\ run.pc # "boot"
    /\ hist.kills < MaxKills
    /\ dt' = NewTable(dt.syncable, dt.sortcol, dt.schema)
    /\ run' = [pc |-> "boot"]
    /\ hist' = [hist EXCEPT !.kills = @ + 1, !.inloop = @ /\ run.pc = "loop",
                             !.held = IF run.pc \in {"loop", "rotate", "finish", "cleanup"}
                                         /\ run.store_chunks
                                      THEN RowIds(dt) ELSE {},
                             !.ckpts = 0,
                             !.after = IF hist.kills = 0 /\ run.pc = "loop"
                                          /\ run.count = hist.ckpts * chunksize
                                       THEN hist.ckpts ELSE 0]
    /\ UNCHANGED <<remote, disk>>

ImportNext ==
    \/ LoadFile \/ ImportStart \/ ImportPage \/ ImportRotate
    \/ ImportSave \/ ImportCleanup \/ Kill

SpecImport == ImportInit /\ [][ImportNext]_vars


\* The rows of a table as its file would hold them.
StoredRows(t) == {list_fields(t, t.data[p]) : p \in 1..Len(t.data)}

FileRows == {disk.rows[p] : p \in 1..Len(disk.rows)}

\* What one uninterrupted import_table leaves: every remote row, and the
\* largest remote timestamp as the watermark.
OneRunRows == {list_fields(dt, proc_row(r, get_full_schema(dt))) : r \in ImportRows(remote)}

OneRunWatermark == api_maxval(remote)

\* An import_table that ran from start to end without a kill does leave that.
OneRunIsTheReference ==
    (run.pc = "done" /\ run.saved /\ hist.kills = 0)
        => (StoredRows(dt) = OneRunRows /\ dt.lastupdate = OneRunWatermark
            /\ FileRows = OneRunRows)

\* C6: an import of a table above the large-table threshold that was killed
\* between two turns of the streaming loop (after any number of checkpoints),
\* started again and resumed from the checkpoint ends with the row set and the
\* watermark of one uninterrupted import.
C6_ResumeEqualsOneRun ==
    (run.pc = "done" /\ run.store_chunks /\ hist.resumed /\ hist.inloop)
        => (StoredRows(dt) = OneRunRows /\ dt.lastupdate = OneRunWatermark)

\* C7: during a chunked import, at every point where the process can be
\* killed and in every state after a restart, at most one checkpoint file
\* exists for the table.
C7_AtMostOneCheckpoint == Cardinality(disk.tmp) <= 1

\* C19: after a kill at any point of a chunked import, the rows the killed run
\* had processed and the checkpoint the restart resumes from does not hold are
\* fewer than chunksize.
C19_LosesLessThanAChunk ==
    (run.pc = "boot" /\ hist.kills > 0 /\ ~disk.hasfile)
        => Cardinality(hist.held \ ResumeIds(disk)) < chunksize

\* The rows of the remote table, and whether the checkpoint interval divides
\* their number.
TotalRows == imp_count(remote, NoWhere)

Divides == TotalRows >= bigtablesize /\ TotalRows % chunksize = 0

\* C20: a fresh chunked import of N rows, chunksize dividing N, has performed
\* N / chunksize checkpoint transitions when its loop ends; a first run killed
\* right after checkpoint transition k and started again ends having
\* performed the other N / chunksize - k transitions, with N rows.
C20_CheckpointTransitions ==
    /\ (Divides /\ hist.kills = 0 /\ run.pc = "finish")
           => hist.ckpts = TotalRows \div chunksize
    /\ (Divides /\ hist.kills = 1 /\ hist.after > 0 /\ run.pc \in {"done", "failed"})
           => /\ run.pc = "done"
              /\ hist.ckpts = (TotalRows \div chunksize) - hist.after
              /\ Cardinality(RowIds(dt)) = TotalRows

\* C33: from the first checkpoint of a chunked import on, at every point where
\* the process can be killed, a checkpoint file or the table file is on disk:
\* the new checkpoint is written before the previous one is removed, the table
\* file before the last checkpoint is removed.
C33_NoGapInRotation ==
    (run.pc \in {"loop", "rotate", "finish", "cleanup"} /\ run.store_chunks
        /\ (run.tmpfile # {} \/ run.pc = "rotate"))
        => (disk.tmp # {} \/ disk.hasfile)

\* C39: every checkpoint file agrees with its name _{maxid}_{table_ts}: each
\* of its rows has an id of at most maxid, and every remote row with a
\* timestamp of at most table_ts and an id of at most maxid is one of its
\* rows, whichever column the table is sorted by.
C39_CheckpointMatchesName ==
    \A f \in disk.tmp :
        LET ids == {f.rows[p].id : p \in 1..Len(f.rows)}
        IN  /\ \A i \in ids : i <= f.name.maxid
            /\ \A r \in ImportRows(remote) :
                   (r.ts <= f.name.ts /\ r.id <= f.name.maxid) => r.id \in ids

\* C8: when import_table of a table above the threshold returns, on a fresh
\* start or after kills and resumes, the table file exists, holds the full row
\* set, and no checkpoint file is left.
C8_FinalizedOnReturn ==
    (run.pc = "done" /\ run.store_chunks)
        => (disk.hasfile /\ FileRows = OneRunRows /\ disk.tmp = {})


----------------------------------------------------------------------------
(* DataSet.resolve_ref, _fetch_ref and the reference column of _proc_row:   *)
(* two tables "a" and "b" whose rows may name a row of the other table.     *)
(* The schema of both is id and a column "ref" with ref = the other table   *)
(* and param = "id"; neither table is syncable.                             *)

TableKeys == {"a", "b"}

Other(tk) == IF tk = "a" THEN "b" ELSE "a"

Absent == -1

\* The remote row of id i in table tk: rem[tk][i] is Absent, 0 (a row without
\* the ref field) or the id the row refers to.
RemoteRefRow(rem, tk, i) ==
    IF rem[tk][i] = 0 THEN [id |-> i] ELSE [id |-> i, ref |-> rem[tk][i]]

\* req(... where id = idx): the rows of the answer.
ref_req(rem, tk, idx) ==
    IF rem[tk][idx] = Absent THEN <<>> ELSE <<RemoteRefRow(rem, tk, idx)>>

\* get_row
get_row(t, rid) ==
    IF DOMAIN t.index # {}
    THEN IF rid \in DOMAIN t.index THEN t.data[t.index[rid] + 1] ELSE None
    ELSE IF \E p \in 1..Len(t.data) : t.data[p].id = rid
         THEN t.data[CHOOSE p \in 1..Len(t.data) :
                        /\ t.data[p].id = rid
                        /\ \A q \in 1..(p - 1) : t.data[q].id # rid]
         ELSE None

\* MUTANT: the fetched row is not upserted.
cache_ref_skip(t, src) == t

\* _fetch_ref: "dt.add_row(src)" for the fetched and processed row.
cache_ref(t, src) == add_row(t, src)

\* "return src[prop] if haskey and prop in src else src" with prop = "id".
ref_value(src) == IF HasKey(src, "id") THEN src.id ELSE src

\* A resolution in progress: the tables, the remote requests made so far
\* (their number, and the table and id of each in order) and the value the
\* last call returned.
RefState(tabs) == [tabs |-> tabs, reqs |-> 0, val |-> None, log |-> <<>>]

\* MUTANT: an id the remote has no row for is cached as a stub row.
ref_missing_stub(S, tk, idx) ==
    [S EXCEPT !.tabs[tk] = add_row(@, [id |-> idx]), !.val = None]

\* _fetch_ref: "if resp is None or len(resp) == 0: ... return None".
ref_missing(S, tk, idx) == [S EXCEPT !.val = None]

RECURSIVE fetch_ref(_, _, _, _, _)
RECURSIVE proc_ref_row(_, _, _, _, _)

\* MUTANT: one more nested resolution before RecursionError.
proc_ref_row_deeper(S, rem, tk, srcrow, depth) ==
    IF ~HasKey(srcrow, "ref") THEN [S EXCEPT !.val = [id |-> srcrow.id]]
    ELSE IF depth > RecursionLimit THEN [S EXCEPT !.val = [id |-> srcrow.id]]
    ELSE LET R == fetch_ref(S, rem, Other(tk), srcrow.ref, depth + 1)
         IN  [R EXCEPT !.val = [id |-> srcrow.id, ref |-> R.val]]

\* _proc_row on a fetched row of table tk: id is copied; the ref column is
\* skipped when the row has no ref field, and is otherwise resolve_ref
\* against the other table.  A resolution nested deeper than the
\* interpreter's recursion limit raises RecursionError, which the
\* "except Exception" of the column swallows: the column is left out.
proc_ref_row(S, rem, tk, srcrow, depth) ==
    IF ~HasKey(srcrow, "ref") THEN [S EXCEPT !.val = [id |-> srcrow.id]]
    ELSE IF depth + 1 > RecursionLimit THEN [S EXCEPT !.val = [id |-> srcrow.id]]
    ELSE LET R == fetch_ref(S, rem, Other(tk), srcrow.ref, depth + 1)
         IN  [R EXCEPT !.val = [id |-> srcrow.id, ref |-> R.val]]

\* _fetch_ref
fetch_ref(S, rem, tk, idx, depth) ==
    IF in_index(S.tabs[tk], idx)
    THEN [S EXCEPT !.val = ref_value(get_row(S.tabs[tk], idx))]
    ELSE LET S1 == [S EXCEPT !.reqs = @ + 1, !.log = Append(@, <<tk, idx>>)]
             resp == ref_req(rem, tk, idx)
         IN  IF Len(resp) = 0 THEN ref_missing(S1, tk, idx)
             ELSE LET P == proc_ref_row(S1, rem, tk, resp[1], depth)
                  IN  [P EXCEPT !.tabs[tk] = cache_ref(@, P.val),
                                !.val = ref_value(P.val)]

\* What one resolution of id idx against table tk was: whether the id had been
\* resolved before, whether an earlier resolution had found its row, whether
\* it was in the index, and the remote requests it made.
Resolution(h, tabs, R, tk, idx) ==
    [again |-> <<tk, idx>> \in h.seen,
     wasfound |-> <<tk, idx>> \in h.found,
     hit |-> in_index(tabs[tk], idx),
     reqs |-> R.reqs,
     unres |-> ~in_index(tabs[tk], idx) /\ remote[tk][idx] = Absent,
     null |-> R.val = None,
     kept |-> R.tabs = tabs]

Noted(h, rem, tk, idx) ==
    [h EXCEPT !.seen = @ \cup {<<tk, idx>>},
              !.found = @ \cup (IF rem[tk][idx] # Absent THEN {<<tk, idx>>} ELSE {})]

NoRefHist == [seen |-> {}, found |-> {}, last |-> <<>>, n |-> 0]

RefInit ==
    /\ remote \in [TableKeys -> [Ids -> {Absent} \cup (0..MaxId)]]
    /\ dt = [tk \in TableKeys |-> NewTable(FALSE, "id", {"id", "ref"})]
    /\ run = Idle
    /\ disk = NoFiles
    /\ hist = NoRefHist

\* resolve_ref(idx, tbl, prop) for one id.
ResolveRef ==
    \E tk \in TableKeys, idx \in Ids :
        /\ hist.n < MaxResolves
        /\ LET R == fetch_ref(RefState(dt), remote, tk, idx, 1)
           IN  /\ dt' = R.tabs
               /\ hist' = [Noted(hist, remote, tk, idx)
                             EXCEPT !.last = <<Resolution(hist, dt, R, tk, idx)>>,
                                    !.n = @ + 1]
        /\ UNCHANGED <<remote, run, disk>>

\* resolve_ref(idx, tbl, prop) for a list of two ids, resolved in turn.
ResolveRefList ==
    \E tk \in TableKeys, i1 \in Ids, i2 \in Ids :
        /\ hist.n + 1 < MaxResolves
        /\ LET R1 == fetch_ref(RefState(dt), remote, tk, i1, 1)
               h1 == Noted(hist, remote, tk, i1)
               R2 == fetch_ref(RefState(R1.tabs), remote, tk, i2, 1)
           IN  /\ dt' = R2.tabs
               /\ hist' = [Noted(h1, remote, tk, i2)
                             EXCEPT !.last = <<Resolution(hist, dt, R1, tk, i1),
                                               Resolution(h1, R1.tabs, R2, tk, i2)>>,
                                    !.n = @ + 2]
        /\ UNCHANGED <<remote, run, disk>>

RefNext == ResolveRef \/ ResolveRefList

SpecRef == RefInit /\ [][RefNext]_vars

LastResolutions == {hist.last[k] : k \in 1..Len(hist.last)}

\* C9 as stated: a resolution of an id that was resolved before against the
\* same table is an index hit and makes no remote request.
C9_SecondResolutionIsHit ==
    \A r \in LastResolutions : r.again => (r.hit /\ r.reqs = 0)

\* C9: once a resolution of an id against a table has found the row at the
\* remote source, every later resolution of that id against that table is an
\* index hit and makes no remote request.
C9_FoundIsCached ==
    \A r \in LastResolutions : r.wasfound => (r.hit /\ r.reqs = 0)

C9_Witness ==
    /\ \E r \in LastResolutions : r.wasfound /\ r.hit /\ r.reqs = 0
    /\ \E tk \in TableKeys : Len(dt[tk].data) > 0 /\ Len(dt[Other(tk)].data) > 0


\* C11: a resolution of an id that is not in the target table's index and for
\* which the remote source returns no row yields null and leaves the rows, the
\* index and the watermark of the target table (of every table) as they were.
C11_UnresolvableYieldsNull ==
    \A r \in LastResolutions : r.unres => (r.null /\ r.kept)

C11_Witness ==
    /\ \E r \in LastResolutions : r.unres /\ r.null /\ r.kept /\ r.reqs = 1
    /\ \E tk \in TableKeys : Len(dt[tk].data) > 0


----------------------------------------------------------------------------
(* Specification SpecTable: one syncable DataTable of a DataSet, its file   *)
(* and its entry in the watermark file, over restarts of the process.       *)

\* No table file and no watermark file.
NoTableFiles == [hasfile |-> FALSE, rows |-> <<>>, wm |-> None]

\* What the last operation was, and what has happened since the table was
\* last saved or the process started; fresh: the files are as the last
\* DataSet.save() left them.
NoTableHist ==
    [op |-> "init", rid |-> 0, dirty |-> FALSE, removed |-> FALSE, fresh |-> FALSE]

Did(h, op, rid) == [h EXCEPT !.op = op, !.rid = rid]

TableInit ==
    /\ \E cols \in {{"id"}, {"id", "ts"}} : dt = NewTable(TRUE, "id", cols)
    /\ remote = <<>>
    /\ run = Idle
    /\ disk = NoTableFiles
    /\ hist = NoTableHist

\* add_row(vrow)
TableAdd ==
    \E vrow \in RowsWithId :
        /\ Len(dt.data) < MaxRows
        /\ dt' = add_row(dt, vrow)
        /\ hist' = [Did(hist, "add", vrow.id) EXCEPT !.dirty = TRUE]
        /\ UNCHANGED <<remote, run, disk>>

\* remove_row(rid)
TableRemove ==
    \E rid \in Ids :
        /\ dt' = remove_row(dt, rid)
        /\ hist' = [Did(hist, "remove", rid) EXCEPT !.dirty = @ \/ in_index(dt, rid),
                                                   !.removed = @ \/ in_index(dt, rid)]
        /\ UNCHANGED <<remote, run, disk>>

\* DataTable.save()
TableSave ==
    /\ Len(dt.data) <= MaxFileRows
    /\ dt' = save(dt)
    /\ disk' = [disk EXCEPT !.hasfile = TRUE, !.rows = save_rows(dt)]
    /\ hist' = [Did(hist, "save", 0) EXCEPT !.dirty = FALSE, !.fresh = FALSE]
    /\ UNCHANGED <<remote, run>>

\* DataSet.save(): the table is saved if it is not marked saved, and the
\* watermark file is written.
DataSetSave ==
    /\ Len(dt.data) <= MaxFileRows
    /\ dt' = IF dt.issaved THEN dt ELSE save(dt)
    /\ disk' = [disk EXCEPT !.hasfile = @ \/ ~dt.issaved,
                            !.rows = IF dt.issaved THEN @ ELSE save_rows(dt),
                            !.wm = dt.lastupdate]
    /\ hist' = [Did(hist, "dssave", 0) EXCEPT !.dirty = @ /\ dt.issaved,
                                              !.fresh = TRUE]
    /\ UNCHANGED <<remote, run>>

\* DataTable.load() where load_table calls it: the table file exists.
TableLoad ==
    /\ disk.hasfile
    /\ Len(dt.data) + Len(disk.rows) <= MaxRows
    /\ dt' = load(dt, disk.rows)
    /\ hist' = Did(hist, "load", 0)
    /\ UNCHANGED <<remote, run, disk>>

\* The process ends and starts again: DataSet._init constructs the table and
\* takes its watermark from the watermark file if the file names the table.
TableRestart ==
    /\ hist.op # "restart"
    /\ dt' = [NewTable(dt.syncable, dt.sortcol, dt.schema)
                EXCEPT !.lastupdate = IF disk.wm = None THEN 0 ELSE disk.wm]
    /\ hist' = [Did(hist, "restart", 0) EXCEPT !.dirty = FALSE]
    /\ UNCHANGED <<remote, run, disk>>

TableNext ==
    \/ TableAdd \/ TableRemove \/ TableSave \/ DataSetSave
    \/ TableLoad \/ TableRestart

SpecTable == TableInit /\ [][TableNext]_vars

\* C12: from an upsert or a remove that changed the table until the next
\* save() the table is marked dirty (issaved is false).
C12_DirtyUntilSaved == hist.dirty => ~dt.issaved


----------------------------------------------------------------------------
(* Specification SpecSave: a DataSet of two tables, "a" syncable and "b"    *)
(* not, their files and the sources file that carries the watermarks;       *)
(* DataSet.save() statement by statement, with the process killed and       *)
(* started again.                                                           *)

\* The sources file: whole with its 'timestamps' object, or cut short by a
\* write that did not finish.
SourcesFile(ts) == [state |-> "whole", ts |-> ts]

PartialFile == [state |-> "partial", ts |-> EmptyIndex]

NoTableFile == [hasfile |-> FALSE, rows |-> <<>>]

\* The tables in the order of self.datatables.
TableOrder == <<"a", "b">>

CanSync(tk) == tk = "a"

\* "self.sources['timestamps'][dtkey] = lastupdate" for every syncable table.
timestamps(tabs, old) ==
    [tk \in DOMAIN old \cup {k \in TableKeys : tabs[k].syncable} |->
        IF tabs[tk].syncable THEN tabs[tk].lastupdate ELSE old[tk]]

\* DataSet._init for one table, followed by load_table when its file exists.
init_table(tk, ts, file) ==
    LET t0 == [NewTable(CanSync(tk), "id", {"id", "ts"})
                 EXCEPT !.lastupdate = IF tk \in DOMAIN ts THEN ts[tk] ELSE 0]
    IN  IF file.hasfile THEN load(t0, file.rows) ELSE t0

NoSaveHist ==
    [op |-> "init", n |-> 0, kills |-> 0,
     dirty |-> [tk \in TableKeys |-> TRUE],
     dirty0 |-> [tk \in TableKeys |-> FALSE],
     wrote |-> {}]

SaveInit ==
    /\ dt = [tk \in TableKeys |-> init_table(tk, EmptyIndex, NoTableFile)]
    /\ remote = <<>>
    /\ run = Idle
    /\ disk = [files |-> [tk \in TableKeys |-> NoTableFile], wm |-> SourcesFile(EmptyIndex)]
    /\ hist = NoSaveHist

\* add_row on a table of the dataset
SaveAdd ==
    \E tk \in TableKeys, i \in Ids, t \in Stamps :
        /\ run.pc = "idle"
        /\ hist.n < MaxOps
        /\ Len(dt[tk].data) < MaxFileRows
        /\ dt' = [dt EXCEPT ![tk] = add_row(@, Row(i, t))]
        /\ hist' = [hist EXCEPT !.op = "add", !.n = @ + 1, !.dirty[tk] = TRUE]
        /\ UNCHANGED <<remote, run, disk>>

\* remove_row on a table of the dataset
SaveRemove ==
    \E tk \in TableKeys, rid \in Ids :
        /\ run.pc = "idle"
        /\ hist.n < MaxOps
        /\ in_index(dt[tk], rid)
        /\ dt' = [dt EXCEPT ![tk] = remove_row(@, rid)]
        /\ hist' = [hist EXCEPT !.op = "remove", !.n = @ + 1, !.dirty[tk] = TRUE]
        /\ UNCHANGED <<remote, run, disk>>

\* DataSet.save() is called.
SaveBegin ==
    /\ run.pc = "idle"
    /\ run' = [pc |-> "tables", k |-> 1]
    /\ hist' = [hist EXCEPT !.op = "save", !.dirty0 = hist.dirty, !.wrote = {}]
    /\ UNCHANGED <<dt, remote, disk>>

\* "for dtkey in self.datatables: if not issaved: save()", one table.
SaveTable ==
    /\ run.pc = "tables"
    /\ LET tk == TableOrder[run.k]
       IN  IF dt[tk].issaved
           THEN UNCHANGED <<dt, disk, hist>>
           ELSE /\ dt' = [dt EXCEPT ![tk] = save(@)]
                /\ disk' = [disk EXCEPT !.files[tk] =
                                [hasfile |-> TRUE, rows |-> save_rows(dt[tk])]]
                /\ hist' = [hist EXCEPT !.wrote = @ \cup {tk}, !.dirty[tk] = FALSE]
    /\ run' = IF run.k = Len(TableOrder) THEN [pc |-> "open"]
              ELSE [run EXCEPT !.k = @ + 1]
    /\ UNCHANGED remote

\* The timestamps are collected and open(path, 'w') empties the file.
SaveOpen ==
    /\ run.pc = "open"
    /\ disk' = [disk EXCEPT !.wm = PartialFile]
    /\ run' = [pc |-> "dump", ts |-> timestamps(dt, disk.wm.ts)]
    /\ UNCHANGED <<dt, remote, hist>>

\* json.dump writes the file, the with block closes it and save() returns.
SaveDump ==
    /\ run.pc = "dump"
    /\ disk' = [disk EXCEPT !.wm = SourcesFile(run.ts)]
    /\ run' = Idle
    /\ hist' = [hist EXCEPT !.op = "saved"]
    /\ UNCHANGED <<dt, remote>>

\* The process is killed.
SaveKill ==
    /\ run.pc \notin {"dead", "failed"}
    /\ hist.kills < MaxKills
    /\ run' = [pc |-> "dead"]
    /\ hist' = [hist EXCEPT !.op = "kill", !.kills = @ + 1]
    /\ UNCHANGED <<dt, remote, disk>>

\* The process is started again: DataSet._init reads the sources file
\* (json.load raises on a file cut short) and DataSet.load loads the tables.
SaveRestart ==
    /\ run.pc = "dead"
    /\ IF disk.wm.state = "partial"
       THEN /\ run' = [pc |-> "failed"]
            /\ UNCHANGED <<dt, hist>>
       ELSE /\ run' = Idle
            /\ dt' = [tk \in TableKeys |-> init_table(tk, disk.wm.ts, disk.files[tk])]
            /\ hist' = [hist EXCEPT !.op = "restart",
                                    !.dirty = [tk \in TableKeys |-> ~disk.files[tk].hasfile]]
    /\ UNCHANGED <<remote, disk>>

SaveNext ==
    \/ SaveAdd \/ SaveRemove \/ SaveBegin \/ SaveTable
    \/ SaveOpen \/ SaveDump \/ SaveKill \/ SaveRestart

SpecSave == SaveInit /\ [][SaveNext]_vars

\* C13: when DataSet.save() has returned, every table that was dirty (changed
\* since it was last saved or loaded, or never saved) has been written to its
\* file and is marked saved, no other table's file was written, and the
\* watermark file maps every syncable table to its watermark in memory.
C13_SaveWritesTheDirty ==
    hist.op = "saved" =>
        /\ \A tk \in TableKeys :
              IF hist.dirty0[tk]
              THEN /\ tk \in hist.wrote
                   /\ disk.files[tk] = [hasfile |-> TRUE, rows |-> save_rows(dt[tk])]
                   /\ dt[tk].issaved
              ELSE tk \notin hist.wrote
        /\ disk.wm.state = "whole"
        /\ \A tk \in TableKeys :
              dt[tk].syncable => (tk \in DOMAIN disk.wm.ts /\ disk.wm.ts[tk] = dt[tk].lastupdate)

\* C14: whenever the process is killed, also in the middle of DataSet.save(),
\* the watermark file on disk is whole: it holds its previous or its new
\* content.
C14_WatermarkFileWhole == hist.op = "kill" => disk.wm.state = "whole"


\* The ids of the rows of a file are pairwise different.
DistinctIds(rows) == \A p, q \in 1..Len(rows) : rows[p].id = rows[q].id => p = q

\* C15: load() of a saved file into an empty table reproduces the rows of the
\* file in order, equal on every schema column (a missing value and None are
\* both the empty field).
C15_RoundTrip ==
    [][(hist'.op = "load" /\ dt.data = <<>> /\ DistinctIds(disk.rows))
          => save_rows(dt') = disk.rows]_vars


\* C16: remove_row of an indexed id deletes the row at the indexed position
\* and the index entry, and if that row held the watermark, the watermark
\* afterwards is the largest timestamp of the remaining rows (0 if none).
C16_RemoveRecomputesWatermark ==
    [][\A rid \in Ids :
          (hist'.op = "remove" /\ hist'.rid = rid /\ in_index(dt, rid))
              => /\ dt'.data = ListPop(dt.data, dt.index[rid])
                 /\ rid \notin DOMAIN dt'.index
                 /\ remove_hit(dt, dt.data[dt.index[rid] + 1])
                        => dt'.lastupdate = MaxStamp(dt'.data)]_vars


\* C17: as long as no row has been removed, no operation on a constructed
\* table (upsert, save, load) lowers its watermark; in particular a table
\* constructed from the watermark file and then loaded keeps at least the
\* persisted watermark.
C17_WatermarkMonotonic ==
    [][(~hist'.removed /\ hist'.op # "restart") => dt'.lastupdate >= dt.lastupdate]_vars


\* C37: after load() the rows of the table are the rows of the file, in file
\* order and one per id, whatever rows the table held before the call.
C37_LoadReplaces ==
    hist.op = "load" =>
        /\ Len(dt.data) = Len(disk.rows)
        /\ \A p \in 1..Len(dt.data) : list_fields(dt, dt.data[p]) = disk.rows[p]
        /\ \A p, q \in 1..Len(dt.data) : dt.data[p].id = dt.data[q].id => p = q


\* C38: when a process that starts after DataSet.save() constructs the table
\* from the files that save left and loads it, the table has the watermark
\* that save wrote, whether or not the timestamp column is a schema column.
C38_WatermarkSurvivesRestart ==
    [][(hist.op = "restart" /\ hist.fresh /\ hist'.op = "load")
          => dt'.lastupdate = disk.wm]_vars


----------------------------------------------------------------------------
(* Specification SpecImportLive: import_table of a table above the          *)
(* large-table threshold while the remote source changes.                   *)

\* Before the import the remote source created its rows in the order of
\* their ids and has updated none since: the timestamps do not decrease with
\* the id (0: the id was never given out).  RemoteTouch breaks the order.
\* The table is sorted by id, the column the resume filter is about.
LiveInit ==
    \E rem \in [ImportIds -> 0..MaxTs] :
        /\ \A i, j \in ImportIds : i < j => rem[i] <= rem[j]
        /\ imp_count(rem, NoWhere) >= bigtablesize
        /\ remote = rem
        /\ dt = NewTable(TRUE, "id", {"id", "ts"})
        /\ run = [pc |-> "boot"]
        /\ disk = NoFiles
        /\ hist = NoImportHist @@ [touched |-> {}]

\* Between two page requests the remote source creates a row or updates one:
\* the row's timestamp becomes the time of the change, which no older
\* timestamp exceeds.
RemoteTouch ==
    \E i \in ImportIds, t \in Stamps :
        /\ Cardinality(hist.touched) < MaxTouches
        /\ run.pc = "loop"
        /\ t > remote[i]
        /\ t >= api_maxval(remote)
        /\ remote' = [remote EXCEPT ![i] = t]
        /\ hist' = [hist EXCEPT !.touched = @ \cup {i}]
        /\ UNCHANGED <<dt, run, disk>>

LiveNext == ImportNext \/ RemoteTouch

SpecImportLive == LiveInit /\ [][LiveNext]_vars

InImport == run.pc \in {"loop", "rotate", "finish", "cleanup"}

\* C32: the horizon of a chunked import is fixed when the streaming loop
\* starts and stays what it is to the end of the call; a start that finds one
\* checkpoint file takes the horizon of its name, whatever the remote maximum
\* has become, and a start that finds none takes the remote maximum of that
\* moment; every checkpoint file the call has written or resumed from
\* carries the call's horizon in its name.
C32_HorizonFixedOnce ==
    /\ []((InImport /\ run.store_chunks) =>
             (\A n \in run.tmpfile \cup (IF run.pc = "rotate" THEN {run.newfile} ELSE {}) :
                  n.ts = run.table_ts))
    /\ [][/\ (InImport /\ run'.pc \in {"loop", "rotate", "finish", "cleanup"})
                 => (run'.table_ts = run.table_ts)
          /\ (run.pc = "boot" /\ run'.pc = "loop" /\ run'.store_chunks)
                 => (run'.table_ts = IF Cardinality(disk.tmp) = 1
                                     THEN (CHOOSE f \in disk.tmp : TRUE).name.ts
                                     ELSE api_maxval(remote))]_vars

\* A resumed run has written a checkpoint of its own while the remote
\* maximum is past its horizon.
C32_Witness ==
    /\ run.pc = "loop" /\ run.store_chunks
    /\ hist.resumed /\ hist.ckpts > 0
    /\ run.tmpfile # {}
    /\ api_maxval(remote) > run.table_ts


\* C40: when the streaming loop of a chunked import has ended, every remote
\* row that was neither created nor updated during the import and whose
\* timestamp is at most the horizon is a row of the table, whatever other
\* rows the remote source created or updated between the page requests.
C40_CompleteUnderChange ==
    (run.pc \in {"finish", "cleanup"} /\ run.store_chunks)
        => \A r \in ImportRows(remote) :
               (r.id \notin hist.touched /\ r.ts <= run.table_ts) => r.id \in RowIds(dt)


----------------------------------------------------------------------------
(* Specification SpecOps: one DataTable under add_row (rows with and        *)
(* without an id), remove_row (ids indexed or not) and save.                *)

\* The last call: its name and, for an add_row of a row without id, the
\* timestamp of the row; n counts the calls that changed the rows.
NoOpsHist == [op |-> "init", ts |-> 0, n |-> 0]

OpsInit ==
    /\ \E s \in BOOLEAN : dt = NewTable(s, "id", {"id", "ts"})
    /\ remote = <<>>
    /\ run = Idle
    /\ disk = NoFiles
    /\ hist = NoOpsHist

\* add_row(vrow), vrow with an id
OpsAdd ==
    \E vrow \in RowsWithId :
        /\ hist.n < MaxOps
        /\ dt' = add_row(dt, vrow)
        /\ hist' = [op |-> "add", ts |-> 0, n |-> hist.n + 1]
        /\ UNCHANGED <<remote, run, disk>>

\* add_row(vrow), vrow without an id
OpsAddNoId ==
    \E t \in Stamps :
        /\ dt' = add_row(dt, RowNoId(t))
        /\ hist' = [hist EXCEPT !.op = "addnoid", !.ts = t]
        /\ UNCHANGED <<remote, run, disk>>

\* remove_row(rid), rid a key of the index
OpsRemove ==
    \E rid \in DOMAIN dt.index :
        /\ hist.n < MaxOps
        /\ dt' = remove_row(dt, rid)
        /\ hist' = [op |-> "remove", ts |-> 0, n |-> hist.n + 1]
        /\ UNCHANGED <<remote, run, disk>>

\* remove_row(rid), rid not a key of the index
OpsRemoveMiss ==
    \E rid \in Ids \ DOMAIN dt.index :
        /\ dt' = remove_row(dt, rid)
        /\ hist' = [hist EXCEPT !.op = "removemiss", !.ts = 0]
        /\ UNCHANGED <<remote, run, disk>>

\* save()
OpsSave ==
    /\ dt' = save(dt)
    /\ disk' = [disk EXCEPT !.hasfile = TRUE, !.rows = save_rows(dt)]
    /\ hist' = [hist EXCEPT !.op = "save", !.ts = 0]
    /\ UNCHANGED <<remote, run>>

OpsNext == OpsAdd \/ OpsAddNoId \/ OpsRemove \/ OpsRemoveMiss \/ OpsSave

SpecOps == OpsInit /\ [][OpsNext]_vars

\* C21: add_row of a row without an id changes nothing: rows, index, watermark
\* and dirty flag of the table are as before the call.
C21_NoIdNoEffect == [][hist'.op = "addnoid" => dt' = dt]_vars

\* A row without id, its timestamp past the watermark, was handed to a
\* saved table that holds rows.
C21_Witness ==
    /\ hist.op = "addnoid"
    /\ dt.syncable /\ dt.issaved /\ dt.data # <<>>
    /\ dt.lastupdate # RowObject /\ hist.ts > dt.lastupdate

\* C22: remove_row of an id that is not in the index changes nothing: rows,
\* index, watermark and dirty flag of the table are as before the call.
C22_RemoveMissNoEffect == [][hist'.op = "removemiss" => dt' = dt]_vars

\* An id that is not indexed was removed from a saved table that holds rows.
C22_Witness ==
    /\ hist.op = "removemiss"
    /\ dt.issaved /\ dt.data # <<>>


----------------------------------------------------------------------------
(* Specification SpecLoad: DataSet.load_table for one table, called by      *)
(* DataSet.load (no row processor) or by a caller that passes one: the      *)
(* table file with its header row, DataTable.load, expand_table, the        *)
(* resave, and import_table for a table below the large-table threshold.    *)
(* The table file is read here only before anything writes it.              *)

\* The order of the columns in the schema list of the configuration.
ColOrder == <<"id", "ts">>

\* get_titles(): the schema columns in schema order, the header save writes.
get_titles(t) == SelectSeq(ColOrder, LAMBDA c : c \in t.schema)

\* The header rows of the files: written under this schema, under a schema
\* that lacked the timestamp column or the id, had another column ("zz") or
\* another column order.
FileHeaders == {<<"id", "ts">>, <<"id">>, <<"ts">>, <<"id", "zz">>, <<"ts", "id">>}

\* The file row for header h of a stored row with id i whose other columns
\* hold v.  csv.reader with QUOTE_NONNUMERIC yields numbers for unquoted
\* fields and _parse_fields takes int() of the id: the values compare and
\* index as the integers written.
FileRow(h, i, v) == [k \in 1..Len(h) |-> IF h[k] = "id" THEN i ELSE v]

\* A file of n rows, ids ascending.
FileRowSets == {S \in SUBSET (Ids \X Stamps) :
                   /\ Cardinality(S) <= MaxFileRows
                   /\ \A a, b \in S : a[1] = b[1] => a = b}

RECURSIVE FileRows2(_, _)
FileRows2(h, S) ==
    IF S = {} THEN <<>>
    ELSE LET m == CHOOSE a \in S : \A b \in S : a[1] <= b[1]
         IN  <<FileRow(h, m[1], m[2])>> \o FileRows2(h, S \ {m})

\* load, lines 76-82: the schema columns the header row does not name.
missing_cols(t, header) == {c \in t.schema : \A k \in 1..Len(header) : header[k] # c}

\* _parse_fields: the schema columns in order, the missing ones skipped, each
\* taking the next field of the file row; ends when the fields run out.
RECURSIVE parse_src(_, _, _, _, _)
parse_src(t, src, i, ind, ret) ==
    IF i > Len(get_titles(t)) \/ ind > Len(src) THEN ret
    ELSE LET c == get_titles(t)[i]
         IN  IF c \in t.missingcols
             THEN parse_src(t, src, i + 1, ind, ret)
             ELSE parse_src(t, src, i + 1, ind + 1,
                            [k \in DOMAIN ret \cup {c} |-> IF k = c THEN src[ind] ELSE ret[k]])

RECURSIVE load_src(_, _, _)
load_src(t, rows, k) ==
    IF k > Len(rows) THEN t
    ELSE LET y == parse_src(t, rows[k], 1, 1, EmptyIndex)
         IN  IF add_row_raises(t, y) THEN add_row(t, y)
             ELSE load_src(add_row(t, y), rows, k + 1)

\* load(): watermark, index and missingcols are reset, the header row is
\* compared with the schema, every further row is parsed and upserted.
load_file(t, header, rows) ==
    [load_src([t EXCEPT !.lastupdate = 0, !.index = EmptyIndex,
                        !.missingcols = missing_cols(t, header)], rows, 1)
        EXCEPT !.issaved = TRUE]

\* "if dt.get_row(xrow['id'])": get_row finds a row (a row has an id, so the
\* dict is not empty and counts as true).
has_row(t, rid) ==
    IF DOMAIN t.index # {} THEN rid \in DOMAIN t.index
    ELSE \E p \in 1..Len(t.data) : t.data[p].id = rid

\* The position (1-based) of the row get_row returns.
get_row_pos(t, rid) ==
    IF DOMAIN t.index # {} THEN t.index[rid] + 1
    ELSE CHOOSE p \in 1..Len(t.data) :
             /\ t.data[p].id = rid
             /\ \A q \in 1..(p - 1) : t.data[q].id # rid

\* The row of a response to "fields id, <missing columns>".
exp_fields(t, r) == [c \in DOMAIN r \cap ({"id"} \cup t.missingcols) |-> r[c]]

\* MUTANT: every response row is upserted.
merge_row_upsert(t, x) == add_row(t, x)

\* expand_table's fx for one response row with fproc = _proc_row:
\* _proc_row(xrow, dt.get_row(xrow['id']), get_missing_schema(), tablekey)
\* when get_row finds a row; the row found takes the missing columns.
merge_row(t, x) ==
    IF ~has_row(t, x.id) THEN t
    ELSE LET p == get_row_pos(t, x.id)
             old == t.data[p]
             new == DOMAIN x \cap t.missingcols
         IN  [t EXCEPT !.data[p] = [c \in DOMAIN old \cup new |->
                                       IF c \in new THEN x[c] ELSE old[c]]]

RECURSIVE merge_rows(_, _, _)
merge_rows(t, resp, k) ==
    IF k > Len(resp) THEN t
    ELSE merge_rows(merge_row(t, exp_fields(t, resp[k])), resp, k + 1)

\* _fetch_table as expand_table calls it: the pages by offset until count
\* reaches total.
RECURSIVE expand_pages(_, _, _, _)
expand_pages(t, rem, cnt, total) ==
    IF cnt >= total THEN t
    ELSE LET resp == imp_req(rem, NoWhere, cnt, t.sortcol)
         IN  expand_pages(merge_rows(t, resp, 1), rem, cnt + Len(resp), total)

\* expand_table with fproc = None: "fproc(xrow, ...)" raises TypeError for
\* the first response row whose id get_row finds.
expand_raises(t, rem, fproc) ==
    /\ fproc = "none"
    /\ \E r \in ImportRows(rem) : has_row(t, r.id)

\* hadfile: the table file existed when load_table was called; mismatch: its
\* header row was not the schema's; asked: a remote request was made on the
\* file path; viaload: the caller is DataSet.load.
LoadHist(hadfile, mismatch, viaload) ==
    NoImportHist @@ [hadfile |-> hadfile, mismatch |-> mismatch,
                     asked |-> FALSE, viaload |-> viaload]

\* DataSet._init has built the table; its file exists or not.
LoadInit ==
    \E cols \in {{"id"}, {"id", "ts"}}, fproc \in {"none", "proc_row"} :
        LET t0 == NewTable(TRUE, "id", cols) @@ [missingcols |-> {}]
        IN  /\ dt = t0
            /\ run = [pc |-> "boot", fproc |-> fproc]
            /\ \/ \E h \in FileHeaders, S \in FileRowSets, rem \in [Ids -> 0..MaxTs] :
                     /\ disk = [hasfile |-> TRUE, header |-> h, rows |-> FileRows2(h, S),
                                tmp |-> {}]
                     /\ remote = [i \in ImportIds |-> IF i \in Ids THEN rem[i] ELSE 0]
                     /\ hist = LoadHist(TRUE, h # get_titles(t0), fproc = "none")
               \/ \E rem \in [ImportIds -> 0..MaxTs] :
                     /\ imp_count(rem, NoWhere) < bigtablesize
                     /\ disk = NoFiles @@ [header |-> <<>>]
                     /\ remote = rem
                     /\ hist = LoadHist(FALSE, FALSE, fproc = "none")

\* load_table, the file exists: dt.load()
LoadTable ==
    /\ run.pc = "boot"
    /\ disk.hasfile
    /\ dt' = load_file(dt, disk.header, disk.rows)
    /\ run' = [run EXCEPT !.pc = IF missing_cols(dt, disk.header) # {}
                                 THEN "expand" ELSE "done"]
    /\ UNCHANGED <<remote, disk, hist>>

\* load_table: "if len(dt.missingcols) > 0: self.expand_table(dt, fproc)"
ExpandTable ==
    /\ run.pc = "expand"
    /\ LET total == imp_count(remote, NoWhere)
       IN  IF total # 0 /\ expand_raises(dt, remote, run.fproc)
           THEN /\ run' = [run EXCEPT !.pc = "failed"]
                /\ dt' = dt
           ELSE /\ run' = [run EXCEPT !.pc = "resave"]
                /\ dt' = IF total = 0 THEN dt ELSE expand_pages(dt, remote, 0, total)
    /\ hist' = [hist EXCEPT !.asked = TRUE]
    /\ UNCHANGED <<remote, disk>>

\* load_table: "dt.save()" after expand_table
Resave ==
    /\ run.pc = "resave"
    /\ disk' = [disk EXCEPT !.header = get_titles(dt),
                            !.rows = [p \in 1..Len(dt.data) |->
                                        [k \in 1..Len(get_titles(dt)) |->
                                            list_fields(dt, dt.data[p])[get_titles(dt)[k]]]]]
    /\ dt' = save(dt)
    /\ run' = [run EXCEPT !.pc = "done"]
    /\ UNCHANGED <<remote, hist>>

LoadNext ==
    \/ LoadTable \/ ExpandTable \/ Resave
    \/ ImportStart \/ ImportPage \/ ImportSave \/ ImportCleanup

SpecLoad == LoadInit /\ [][LoadNext]_vars

\* C23: after load() of a file whose header row is not the schema's (another
\* number of columns or other names) the table is empty: no rows, no index
\* entries.
C23_MismatchLoadsNothing ==
    (hist.hadfile /\ hist.mismatch /\ run.pc # "boot")
        => (dt.data = <<>> /\ dt.index = EmptyIndex)

\* C30: expand_table changes the rows of the table only by giving them
\* missing columns: the table has the rows it had, at the positions they had
\* and under the index it had, each with its id and with the values of the
\* columns it was loaded with; a fetched row whose id is not in the table adds
\* nothing.
C30_ExpandOnlyMerges ==
    [][run.pc = "expand" =>
          /\ Len(dt'.data) = Len(dt.data)
          /\ dt'.index = dt.index
          /\ \A p \in 1..Len(dt.data) :
                /\ DOMAIN dt.data[p] \subseteq DOMAIN dt'.data[p]
                /\ DOMAIN dt'.data[p] \subseteq DOMAIN dt.data[p] \cup dt.missingcols
                /\ \A c \in DOMAIN dt.data[p] : dt'.data[p][c] = dt.data[p][c]]_vars

\* An expand made with a row processor has returned: a row of the table has
\* taken a missing column, and the remote source holds a row whose id is not
\* in the table.
C30_Witness ==
    /\ run.pc = "resave"
    /\ run.fproc = "proc_row"
    /\ \E p \in 1..Len(dt.data) : DOMAIN dt.data[p] \cap dt.missingcols # {}
    /\ \E r \in ImportRows(remote) : ~has_row(dt, r.id)

\* The file path of load_table has ended: it returned, or an exception left it.
FilePathEnded == hist.hadfile /\ run.pc \in {"done", "failed"}

\* C29: DataSet.load takes one of two paths for a table.  With a file, the
\* table is loaded from it and, the file lacking no schema column, no remote
\* request is made; without a file the table is imported whole from the
\* remote source; with a file that lacks schema columns the table is
\* expanded and saved again, and load_table returns.
C29_LoadPaths ==
    hist.viaload =>
        /\ (FilePathEnded /\ dt.missingcols = {}) => (run.pc = "done" /\ ~hist.asked)
        /\ (~hist.hadfile /\ run.pc = "done") => RowIds(dt) = IdsOf(ImportRows(remote))
        /\ (FilePathEnded /\ dt.missingcols # {})
               => /\ run.pc = "done"
                  /\ hist.asked
                  /\ dt.issaved
                  /\ disk.header = get_titles(dt)


----------------------------------------------------------------------------
(* Specification SpecTransform: sync_table of a table whose schema has a    *)
(* column "d" of type date; the remote source may hold a value for it that  *)
(* _proc_row cannot process.                                                *)

\* A remote value of the date column that is not a number (a string, a
\* null): "vx > 0" raises TypeError for it.
BadValue == -3

DateValues == {0, 1, BadValue}

\* datetime.fromtimestamp(vx).strftime(...): the date string of timestamp vx.
DateString(vx) == 100 + vx

\* The rows of the remote table: remote[i] is [ts, d], ts = 0 for no row.
TypedRows(rem) == {[id |-> i, ts |-> rem[i].ts, d |-> rem[i].d] :
                      i \in {j \in RIds : rem[j].ts > 0}}

typed_count(rem, q) == Cardinality({r \in TypedRows(rem) : Matches(r, q)})

typed_req(rem, q, offset, col) ==
    LET all == SortRows({r \in TypedRows(rem) : Matches(r, q)}, col)
    IN  SubSeq(all, offset + 1, IF offset + PageLimit < Len(all)
                                THEN offset + PageLimit ELSE Len(all))

\* _proc_row, one column: the try block raises.
col_raises(c, srcrow) == c = "d" /\ srcrow[c] = BadValue

\* _proc_row, one column: the value stored.
col_value(c, srcrow) ==
    IF c = "d" THEN (IF srcrow[c] > 0 THEN DateString(srcrow[c]) ELSE None)
    ELSE srcrow[c]

\* _proc_row(srcrow, None, schema, tkey): every column is processed in its
\* own try block; a column that raises is logged and left out of the result.
proc_typed_row(srcrow, schema) ==
    [c \in {k \in DOMAIN srcrow \cap schema : ~col_raises(k, srcrow)} |-> col_value(c, srcrow)]

TransformInit ==
    \E rem \in [RIds -> [ts : 0..MaxTs, d : DateValues]], srtc \in {"id", "ts"} :
        /\ \A i \in RIds : rem[i].ts = 0 => rem[i].d = 0
        /\ remote = rem
        /\ dt = NewTable(TRUE, srtc, {"id", "d", "ts"})
        /\ run = Idle
        /\ disk = NoFiles
        /\ hist = [delta |-> {}]

\* sync_table up to the loop of _fetch_table
TransformStart ==
    /\ run.pc = "idle"
    /\ LET q == sync_query(dt)
           total == typed_count(remote, q)
       IN  /\ run' = IF total = 0 THEN [pc |-> "done"]
                      ELSE [pc |-> "loop", total |-> total, count |-> 0, q |-> q]
           /\ hist' = [delta |-> {r \in TypedRows(remote) : Matches(r, q)}]
    /\ UNCHANGED <<dt, remote, disk>>

RECURSIVE add_typed_rows(_, _, _)
add_typed_rows(t, resp, k) ==
    IF k > Len(resp) THEN t
    ELSE add_typed_rows(add_row(t, proc_typed_row(resp[k], get_full_schema(t))), resp, k + 1)

\* _fetch_table: one turn of the loop, the page request and
\* "for x in resp: dt.add_row(fproc(x, None, lschema, dt.tablekey))".
TransformPage ==
    /\ run.pc = "loop"
    /\ IF run.count < run.total
       THEN LET resp == typed_req(remote, run.q, run.count, dt.sortcol)
            IN  /\ dt' = add_typed_rows(dt, resp, 1)
                /\ run' = [run EXCEPT !.count = @ + Len(resp)]
       ELSE /\ run' = [pc |-> "done"]
            /\ dt' = dt
    /\ UNCHANGED <<remote, disk, hist>>

TransformNext == TransformStart \/ TransformPage

SpecTransform == TransformInit /\ [][TransformNext]_vars

\* C24: when sync_table returns, no row of the delta with a column that could
\* not be processed is in the table in any form, and every other row of the
\* delta is stored.
C24_FailedRowSkipped ==
    run.pc = "done" =>
        \A r \in hist.delta :
            IF col_raises("d", r)
            THEN \A p \in 1..Len(dt.data) : dt.data[p].id # r.id
            ELSE Holds(dt, proc_typed_row(r, get_full_schema(dt)))


----------------------------------------------------------------------------
(* Specification SpecRefList: resolve_ref for lists of ids against the      *)
(* tables "a" and "b" of SpecRef, with the list each call returns.          *)

\* The last call: the ids given, the list returned, and for each id whether
\* it was resolvable (indexed, or the remote source has its row).
NoListHist == [ids |-> <<>>, ret |-> <<>>, ok |-> <<>>, n |-> 0]

RefListInit ==
    /\ remote \in [TableKeys -> [Ids -> {Absent} \cup (0..MaxId)]]
    /\ dt = [tk \in TableKeys |-> NewTable(FALSE, "id", {"id", "ref"})]
    /\ run = Idle
    /\ disk = NoFiles
    /\ hist = NoListHist

resolvable(tabs, rem, tk, idx) == in_index(tabs[tk], idx) \/ rem[tk][idx] # Absent

\* resolve_ref(idx, tbl, prop), idx a list of two ids:
\* "for x in idx: ret.append(self._fetch_ref(self.datatables[tbl], x, prop))"
ResolveList ==
    \E tk \in TableKeys, i1 \in Ids, i2 \in Ids :
        /\ hist.n < MaxResolves
        /\ LET R1 == fetch_ref(RefState(dt), remote, tk, i1, 1)
               R2 == fetch_ref(RefState(R1.tabs), remote, tk, i2, 1)
           IN  /\ dt' = R2.tabs
               /\ hist' = [ids |-> <<i1, i2>>,
                           ret |-> <<R1.val, R2.val>>,
                           ok |-> <<resolvable(dt, remote, tk, i1),
                                    resolvable(R1.tabs, remote, tk, i2)>>,
                           n |-> hist.n + 1]
        /\ UNCHANGED <<remote, run, disk>>

RefListNext == ResolveList

SpecRefList == RefListInit /\ [][RefListNext]_vars

\* C25: the list resolve_ref returns for a list of ids has one element per
\* resolvable id, in input order, and no null entry.
C25_ListSkipsUnresolvable ==
    /\ Len(hist.ret) = Cardinality({k \in 1..Len(hist.ids) : hist.ok[k]})
    /\ \A k \in 1..Len(hist.ret) : hist.ret[k] # None


----------------------------------------------------------------------------
(* Specification SpecLazy: resolve_ref of single ids against the tables     *)
(* "a" and "b" of SpecRef after DataSet.load has loaded both from files     *)
(* that hold a header and no row (the tables are empty and marked saved).   *)

\* DataTable.load of a file with a header and no row: "self.issaved = True".
LoadedEmpty(t) == [t EXCEPT !.issaved = TRUE]

\* The last call: the table and the id, whether the id was absent from the
\* index and present at the remote source when the call began, and the
\* number of remote requests the call made for that id of that table.
NoLazyHist == [tk |-> "a", idx |-> 0, lazy |-> FALSE, fetches |-> 0, reqs |-> 0, n |-> 0]

LazyInit ==
    /\ remote \in [TableKeys -> [Ids -> {Absent} \cup (0..MaxId)]]
    /\ dt = [tk \in TableKeys |-> LoadedEmpty(NewTable(FALSE, "id", {"id", "ref"}))]
    /\ run = Idle
    /\ disk = NoFiles
    /\ hist = NoLazyHist

\* The requests of a log that ask for id idx of table tk.
fetches_of(log, tk, idx) == Cardinality({k \in 1..Len(log) : log[k] = <<tk, idx>>})

\* resolve_ref(idx, tbl, prop) for one id: "return self._fetch_ref(...)".
LazyResolve ==
    \E tk \in TableKeys, idx \in Ids :
        /\ hist.n < MaxResolves
        /\ LET R == fetch_ref(RefState(dt), remote, tk, idx, 1)
           IN  /\ dt' = R.tabs
               /\ hist' = [tk |-> tk, idx |-> idx,
                           lazy |-> ~in_index(dt[tk], idx) /\ remote[tk][idx] # Absent,
                           fetches |-> fetches_of(R.log, tk, idx),
                           reqs |-> R.reqs,
                           n |-> hist.n + 1]
        /\ UNCHANGED <<remote, run, disk>>

LazyNext == LazyResolve

SpecLazy == LazyInit /\ [][LazyNext]_vars

\* C27: a resolution of an id that was absent from the target table's index
\* and present at the remote source made exactly one remote request for that
\* id, and right after it the target table holds a row with that id at the
\* position its index gives for the id and is not marked saved.
C27_LazyMaterialized ==
    hist.lazy =>
        /\ hist.fetches = 1
        /\ in_index(dt[hist.tk], hist.idx)
        /\ get_row(dt[hist.tk], hist.idx).id = hist.idx
        /\ ~dt[hist.tk].issaved


\* Row idx of table tk and the row it refers to refer to each other.
Mutual(tk, idx) ==
    /\ remote[tk][idx] > 0
    /\ remote[Other(tk)][remote[tk][idx]] = idx

----------------------------------------------------------------------------
(* Specification SpecLimiter: IgdbClient._req and _check_limits against a   *)
(* clock that advances between any two statements.  run holds the clock     *)
(* (now), lastreqtime, the position in _req and the wake-up time of a       *)
(* sleep; hist the times the last request was sent and the one before it    *)
(* completed.                                                               *)

LimiterInit ==
    /\ dt = 0
    /\ remote = <<>>
    /\ disk = NoFiles
    /\ run = [pc |-> "idle", now |-> 1, lastreqtime |-> 0, wake |-> 0]
    /\ hist = [sent |-> 0, completed |-> 0, requests |-> 0]

\* Time passes.  A sleeping process is not held up by it.
Tick ==
    /\ run.now < MaxClock
    /\ run.pc # "error"
    /\ run' = [run EXCEPT !.now = @ + 1]
    /\ UNCHANGED <<dt, remote, disk, hist>>

\* _req is called; _check_limits line 955: the test, with its clock reading.
CheckLimits ==
    /\ run.pc = "idle"
    /\ run' = [run EXCEPT !.pc = IF run.lastreqtime > 0
                                    /\ run.now - run.lastreqtime < reqlimitms
                                 THEN "compute" ELSE "send"]
    /\ UNCHANGED <<dt, remote, disk, hist>>

\* The sleep length of line 956, from a second clock reading.
dursec(now, last) == reqlimitms - (now - last)

\* _check_limits lines 956-957: time.sleep(dursec) raises ValueError for a
\* negative length.
ComputeSleep ==
    /\ run.pc = "compute"
    /\ run' = IF dursec(run.now, run.lastreqtime) < 0
              THEN [run EXCEPT !.pc = "error"]
              ELSE [run EXCEPT !.pc = "sleep",
                               !.wake = run.now + dursec(run.now, run.lastreqtime)]
    /\ UNCHANGED <<dt, remote, disk, hist>>

\* time.sleep returns, not before the length has passed.
WakeUp ==
    /\ run.pc = "sleep"
    /\ run.now >= run.wake
    /\ run' = [run EXCEPT !.pc = "send"]
    /\ UNCHANGED <<dt, remote, disk, hist>>

\* requests.post: the request is sent.
SendRequest ==
    /\ run.pc = "send"
    /\ run' = [run EXCEPT !.pc = "inflight"]
    /\ hist' = [hist EXCEPT !.sent = run.now, !.requests = @ + 1]
    /\ UNCHANGED <<dt, remote, disk>>

\* requests.post returns: the request has completed.
Respond ==
    /\ run.pc = "inflight"
    /\ run' = [run EXCEPT !.pc = "stamp"]
    /\ hist' = [hist EXCEPT !.completed = run.now]
    /\ UNCHANGED <<dt, remote, disk>>

\* "self.lastreqtime = time.time_ns()" and the return of _req.
StampTime ==
    /\ run.pc = "stamp"
    /\ run' = [run EXCEPT !.pc = "idle", !.lastreqtime = run.now]
    /\ UNCHANGED <<dt, remote, disk, hist>>

LimiterNext ==
    \/ Tick \/ CheckLimits \/ ComputeSleep \/ WakeUp
    \/ SendRequest \/ Respond \/ StampTime

SpecLimiter == LimiterInit /\ [][LimiterNext]_vars

\* C26: a request is never sent sooner than reqlimitms after the previous
\* request completed, and the limiter never ends in an error.
C26_RateLimited ==
    /\ (run.pc = "inflight" /\ hist.requests > 1) => hist.sent - hist.completed >= reqlimitms
    /\ run.pc # "error"


----------------------------------------------------------------------------
(* Specification SpecAutoref: import_table of a table, sorted by id, whose  *)
(* schema is id, name and a column "parent" that refers to the table itself *)
(* (ref = the table's own key, param = "name"), with the process killed and *)
(* started again.  The remote rows are those of SpecImport; each carries a  *)
(* name and, but for row 1, the id of another row as its parent.            *)

\* The name of remote row i: a value that is no id.
Name(i) == 10 + i

Names == {Name(i) : i \in ImportIds}

\* The parent field of remote row i: none for row 1, the next id for an even
\* id (a row that comes later in the stream), an earlier id for an odd one.
ParentOf(i) == IF i = 1 THEN 0 ELSE IF i % 2 = 0 THEN i + 1 ELSE i - 2

\* The remote row as the API returns it.
AutoRow(r) ==
    IF ParentOf(r.id) = 0 THEN r @@ [name |-> Name(r.id)]
    ELSE r @@ [name |-> Name(r.id), parent |-> ParentOf(r.id)]

\* A page of the import with the fields of the schema.
auto_req(rem, q, offset, col) ==
    LET resp == imp_req(rem, q, offset, col)
    IN  [k \in 1..Len(resp) |-> AutoRow(resp[k])]

\* _resolve_autorefs: "for row in dt.data", from position p on; the list may
\* grow while it is walked.  row[cname] = resolve_ref(row[cname], own key,
\* "name"): None for None; for an indexed id the name of its row; for any
\* other id _fetch_ref asks the remote source for the row, processes and
\* upserts it and returns its name, or None when there is no such row.
RECURSIVE resolve_autorefs(_, _, _)
resolve_autorefs(t, rem, p) ==
    IF p > Len(t.data) THEN t
    ELSE LET row == t.data[p]
         IN  IF ~HasKey(row, "parent") THEN resolve_autorefs(t, rem, p + 1)
             ELSE LET idx == row.parent
                      there == idx \in ImportIds /\ rem[idx] > 0
                      src == proc_row(AutoRow(Row(idx, rem[idx])), get_full_schema(t))
                      t1 == IF idx # None /\ ~in_index(t, idx) /\ there
                            THEN add_row(t, src) ELSE t
                      val == IF idx = None THEN None
                             ELSE IF in_index(t, idx) THEN t.data[t.index[idx] + 1].name
                             ELSE IF there THEN src.name
                             ELSE None
                  IN  resolve_autorefs([t1 EXCEPT !.data[p].parent = val], rem, p + 1)

AutoInit ==
    \E rem \in [ImportIds -> 0..MaxTs] :
        /\ remote = rem
        /\ dt = NewTable(TRUE, "id", {"id", "name", "parent"})
        /\ run = [pc |-> "boot"]
        /\ disk = NoFiles
        /\ hist = NoImportHist

\* One turn of the streaming loop, as ImportPage: _proc_row leaves a column
\* whose ref is the table's own key as the remote source gave it.
AutoPage ==
    /\ run.pc = "loop"
    /\ IF run.count >= run.remaining
       THEN /\ run' = [run EXCEPT !.pc = "finish"]
            /\ UNCHANGED <<dt, disk, hist>>
       ELSE LET resp == auto_req(remote, run.q, run.count, dt.sortcol)
                t1 == add_rows(dt, resp, 1)
                maxid == page_maxid(run.maxid, resp)
                cnt == run.count + Len(resp)
            IN  IF checkpoint_due(run, cnt)
                THEN /\ disk' = write_tmp(disk, tmp_name(maxid, run.table_ts), save_rows(t1))
                     /\ dt' = save(t1)
                     /\ run' = [run EXCEPT !.pc = "rotate", !.maxid = maxid, !.count = cnt]
                                  @@ [newfile |-> tmp_name(maxid, run.table_ts),
                                      last |-> Len(resp)]
                     /\ UNCHANGED hist
                ELSE /\ dt' = t1
                     /\ run' = [run EXCEPT !.pc = IF Len(resp) = 0 THEN "finish" ELSE "loop",
                                           !.maxid = maxid, !.count = cnt]
                     /\ UNCHANGED <<disk, hist>>
    /\ UNCHANGED remote

\* After the loop: "self._resolve_autorefs(dt)".
AutoResolve ==
    /\ run.pc = "finish"
    /\ dt' = resolve_autorefs(dt, remote, 1)
    /\ run' = [run EXCEPT !.pc = "save"]
    /\ UNCHANGED <<remote, disk, hist>>

\* "dt.save()"
AutoSave ==
    /\ run.pc = "save"
    /\ disk' = [disk EXCEPT !.hasfile = TRUE, !.rows = save_rows(dt)]
    /\ dt' = save(dt)
    /\ run' = [run EXCEPT !.pc = "cleanup"]
    /\ UNCHANGED <<remote, hist>>

AutoNext ==
    \/ LoadFile \/ ImportStart \/ AutoPage \/ ImportRotate
    \/ AutoResolve \/ AutoSave \/ ImportCleanup \/ Kill

SpecAutoref == AutoInit /\ [][AutoNext]_vars

\* The parent field of a stored row is what the remote source gave: the id,
\* or nothing.
Unresolved(frow) == frow.parent \in {None, ParentOf(frow.id)} \ {0}

\* The parent field of a stored row is the name of the row the remote row
\* refers to, or None when the remote row refers to none or to a row that
\* does not exist.
Resolved(frow) ==
    LET idx == ParentOf(frow.id)
    IN  frow.parent = IF idx \in ImportIds /\ idx # 0 /\ remote[idx] > 0
                      THEN Name(idx) ELSE None

\* C31: while pages are streamed the rows of the table hold the ids the
\* remote source gave for the self reference, and so does every checkpoint
\* file; the pass runs after the last page and before the table file is
\* saved: the table file holds for every row the value the reference
\* resolves to, resolved once, and so does the table when import_table has
\* returned.
C31_AutorefsAfterStream ==
    /\ \A f \in disk.tmp : \A p \in 1..Len(f.rows) : Unresolved(f.rows[p])
    /\ run.pc \in {"loop", "rotate", "finish"} =>
           \A p \in 1..Len(dt.data) : Unresolved(list_fields(dt, dt.data[p]))
    /\ disk.hasfile => \A p \in 1..Len(disk.rows) : Resolved(disk.rows[p])
    /\ run.pc = "done" => \A p \in 1..Len(dt.data) : Resolved(list_fields(dt, dt.data[p]))


----------------------------------------------------------------------------
(* Specification SpecThreshold: one call of import_table for a table with   *)
(* no table file, of any remote size, sorted by id.  A checkpoint file of   *)
(* an earlier, killed import may lie beside it (the remote table may have   *)
(* shrunk since).                                                           *)

\* The checkpoint files an earlier import may have left: none, or one that
\* holds a single row.
StaleFiles ==
    {{}} \cup {{[name |-> tmp_name(i, 1), rows |-> <<Row(i, 1)>>]} : i \in ImportIds}

\* tmp0: the checkpoint files on disk when import_table was called.
ThresholdInit ==
    \E rem \in [ImportIds -> 0..MaxTs], old \in StaleFiles :
        /\ remote = rem
        /\ dt = NewTable(TRUE, "id", {"id", "ts"})
        /\ run = [pc |-> "boot"]
        /\ disk = [NoFiles EXCEPT !.tmp = old]
        /\ hist = NoImportHist @@ [tmp0 |-> old]

ThresholdNext ==
    ImportStart \/ ImportPage \/ ImportRotate \/ ImportSave \/ ImportCleanup

SpecThreshold == ThresholdInit /\ [][ThresholdNext]_vars

\* No checkpoint file was written, loaded or removed: the files are those the
\* call found, the call has not resumed from one, and its rows are remote rows.
NoCheckpointing ==
    /\ disk.tmp = hist.tmp0
    /\ ~hist.resumed
    /\ run.pc # "failed"
    /\ \A p \in 1..Len(dt.data) : dt.data[p] \in ImportRows(remote)

\* C34 as stated: an import of a table whose remote row count does not exceed
\* bigtablesize writes, loads and removes no checkpoint file.
C34_NoneUpToThreshold == TotalRows <= bigtablesize => NoCheckpointing

\* C34: an import of a table whose remote row count is below bigtablesize
\* writes, loads and removes no checkpoint file.
C34_NoneBelowThreshold == TotalRows < bigtablesize => NoCheckpointing

\* An import of chunksize rows or more, below the threshold, has returned
\* with the table file written, a checkpoint file of an earlier import still
\* lying there.
C34_Witness ==
    /\ TotalRows < bigtablesize /\ TotalRows >= chunksize
    /\ run.pc = "done" /\ run.saved
    /\ disk.tmp # {}
    /\ Len(dt.data) = TotalRows


----------------------------------------------------------------------------
(* Specification SpecSyncLive: sync_table while the remote source deletes   *)
(* rows between the count request and the page requests.  The process is    *)
(* not interrupted: the steps of the loop of _fetch_table are taken as long *)
(* as the loop runs.                                                        *)

\* Between two requests the remote source deletes a row.
RemoteDelete ==
    \E i \in RIds :
        /\ run.pc = "loop"
        /\ remote[i] > 0
        /\ remote' = [remote EXCEPT ![i] = 0]
        /\ UNCHANGED <<dt, run, disk, hist>>

SyncLiveNext == SyncStart \/ SyncFetch \/ SyncApply \/ RemoteDelete

SpecSyncLive ==
    /\ SyncInit
    /\ [][SyncLiveNext]_vars
    /\ WF_vars(SyncFetch)
    /\ WF_vars(SyncApply)

\* C35: a call of sync_table that has entered the loop of _fetch_table
\* returns, whatever the remote source deletes meanwhile.
C35_SyncTerminates == (run.pc = "loop") ~> (run.pc = "done")


====
